---- MODULE Spec2Model ----
(***************************************************************************)
(* Media assembly pipeline of creepypastaAI.                               *)
(*                                                                         *)
(*   src/src/video/ffmpeg_video_processor.py  FFmpegVideoProcessor         *)
(*   src/src/video/video_generator.py         VideoGenerator.create_video  *)
(*   src/src/image/openai_image_generator.py  OpenAIImageGenerator         *)
(*                                                                         *)
(* One behaviour is one render request.  It enters either through          *)
(* VideoGenerator.create_video or through a direct call of the public      *)
(* method FFmpegVideoProcessor.create_video_from_images.  Everything the   *)
(* code cannot control (which files exist, whether cv2 can read an image,  *)
(* how an ffmpeg subprocess ends, what the image API answers) is drawn     *)
(* from small sets when the step that depends on it is taken.              *)
(*                                                                         *)
(* Time is fixed point: durations are integers in microseconds and a       *)
(* division rounds toward zero.  The code divides IEEE doubles, whose      *)
(* rounding error is far below one microsecond, so every rounding effect   *)
(* of the code is over-approximated by the model.                          *)
(***************************************************************************)
EXTENDS Integers, Sequences, FiniteSets, TLC

VARIABLES
    pc,                    \* "idle", "m0", "m1", "m2", "m3", "hung", "done"
    entry,                 \* "none", "create_video", "create_video_from_images"
    \* ---- arguments of create_video_from_images ----
    image_paths,           \* sequence of image file ids
    durations,             \* sequence of slot durations (microseconds)
    audio_path,            \* "None" or "narration"
    background_music_path, \* "None" or "music"
    \* ---- environment of the request ----
    readable,              \* image files cv2.imread can decode
    narrMuxOk,             \* a narration-only mux of the composed stream works
    \* ---- files the processor writes ----
    outFile,               \* state of output_path: none / partial / empty / valid
    outAudio,              \* audio carried by output_path: none / narration / mixed / music
    tempVideo,             \* state of temp_video_*.mp4: none / partial / noframes / frames
    concatFile,            \* concat_list_*.txt exists
    \* ---- history of the strategy chain ----
    attempts,              \* strategies entered by the loop, in order
    outcomes,              \* what each attempt handed to the loop: "True" / "False" / "raise"
    log,                   \* error and warning records written by the processor
    mixFailed,             \* the amix run of strategy 0 ended with an error
    result,                \* return value of create_video_from_images: pending / True / False
    \* ---- VideoGenerator.create_video ----
    audio_file_exists,     \* Path(audio_file).exists()
    audio_duration,        \* duration probed from the narration (microseconds)
    images_needed,         \* max(3, int(audio_duration / image_duration))
    all_image_paths,       \* list returned by ensure_sufficient_images
    image_durations,       \* list built at video_generator.py:439
    music_file_exists,     \* assets/music/creepy-music.mp3 exists
    ffmpeg_available,      \* `ffmpeg -version` runs (FFmpegVideoProcessor.__init__)
    processor_constructed, \* FFmpegVideoProcessor(...) returned
    cv_exit,               \* line through which create_video returned
    video_path,            \* return value of create_video: pending / None / out
    \* ---- OpenAIImageGenerator ----
    images_dir,            \* image files present in assets/images
    cache_data,            \* cache_data["generated_images"]: key -> file id
    generation_calls,      \* prompts sent to openai_client.images.generate
    \* ---- SubtitleGenerator ----
    sub_pc,                \* "off", "call", "done"
    sub_call,              \* "_calculate_timing" or "generate_subtitle_file"
    sub_text,              \* text argument: sentences, each n words of w characters
    sub_segments,          \* caption texts handed to _calculate_timing
    total_duration,        \* audio duration argument (microseconds)
    timed_segments,        \* list returned by _calculate_timing
    subtitle_ret,          \* generate_subtitle_file: pending / None / srt
    \* ---- ensure_sufficient_images, called once or twice ----
    g_pc,                  \* "off" or "on"
    g_required,            \* required_count argument of the calls
    g_client,              \* openai_client: TRUE iff OPENAI_API_KEY gave a client
    g_dir,                 \* image files of images_path
    g_cache,               \* cache_data["generated_images"]: key -> file
    g_changed,             \* a file was deleted between the calls
    g_hist,                \* one record per finished call
    \* ---- two generate_images batches running at once ----
    c_pc,                  \* per request: "off", "check", "call", "done"
    c_prompts,             \* per request: the keys of its prompts, in order
    c_k,                   \* per request: position in its prompt list
    c_mem,                 \* per request: its instance's cache_data
    c_called,              \* per request: keys it sent to the collaborator
    c_added,               \* per request: keys it wrote a cache entry for
    c_disk,                \* generated_images_cache.json
    c_dir,                 \* image files of images_path
    \* ---- what strategies 1 and 2 hand to the encoder ----
    concat_manifest,       \* directives written by _create_ffmpeg_concat_file
    slideshow,             \* inputs opened / stream encoded by _method_simple_slideshow
    \* ---- _create_video_with_opencv called on its own ----
    w_pc,                  \* "off", "call", "done"
    w_image_paths,         \* image_paths argument
    w_durations,           \* durations argument (microseconds)
    w_readable,            \* images cv2.imread can load
    w_fps,                 \* fps argument
    w_crossfade,           \* crossfade_duration argument (microseconds)
    video_writer,          \* runs of frames written, in order
    \* ---- cleanup_cache called on its own ----
    k_pc,                  \* "off", "call", "done"
    k_index,               \* cache_data["generated_images"]: key -> file, age
    k_total,               \* cache_data["metadata"]["total_images"]
    k_files,               \* files of images_path
    k_max_age,             \* max_age_days argument
    k_locked,              \* files whose unlink raises
    k_before,              \* index and files before the call
    k_cache_file           \* generated_images_cache.json: index and total_images

vars == << pc, entry, image_paths, durations, audio_path, background_music_path,
           readable, narrMuxOk, outFile, outAudio, tempVideo, concatFile,
           attempts, outcomes, log, mixFailed, result,
           audio_file_exists, audio_duration, images_needed, all_image_paths,
           image_durations, music_file_exists, ffmpeg_available,
           processor_constructed, cv_exit, video_path,
           images_dir, cache_data, generation_calls,
           sub_pc, sub_call, sub_text, sub_segments, total_duration,
           timed_segments, subtitle_ret,
           g_pc, g_required, g_client, g_dir, g_cache, g_changed, g_hist,
           c_pc, c_prompts, c_k, c_mem, c_called, c_added, c_disk, c_dir,
           concat_manifest, slideshow,
           w_pc, w_image_paths, w_durations, w_readable, w_fps, w_crossfade,
           video_writer,
           k_pc, k_index, k_total, k_files, k_max_age, k_locked, k_before,
           k_cache_file >>

compVars  == << w_pc, w_image_paths, w_durations, w_readable, w_fps, w_crossfade,
                video_writer >>
sweepVars == << k_pc, k_index, k_total, k_files, k_max_age, k_locked, k_before,
               k_cache_file >>
planVars  == << concat_manifest, slideshow >>

guarVars == << g_pc, g_required, g_client, g_dir, g_cache, g_changed, g_hist >>
concVars == << c_pc, c_prompts, c_k, c_mem, c_called, c_added, c_disk, c_dir >>

subVars == << sub_pc, sub_call, sub_text, sub_segments, total_duration,
              timed_segments, subtitle_ret >>

chainVars == << image_paths, durations, audio_path, background_music_path,
                readable, narrMuxOk >>
fileVars  == << outFile, outAudio, tempVideo, concatFile >>
cvVars    == << audio_file_exists, audio_duration, images_needed, all_image_paths,
                image_durations, music_file_exists, ffmpeg_available,
                processor_constructed >>
genVars   == << images_dir, cache_data, generation_calls >>
renderVars == << pc, entry, chainVars, fileVars, attempts, outcomes, log, mixFailed,
                 result, cvVars, cv_exit, video_path, genVars, planVars >>

(***************************************************************************)
(* Bounds of the model                                                     *)
(***************************************************************************)
MaxImages == 3       \* longest image list of a direct call
MaxOrig   == 3       \* most hand-made horror_*.png files in the directory
MaxGenIdx == 1       \* generated files / cache keys 0..MaxGenIdx may pre-exist

Second == 1000 * 1000    \* microseconds per second
AudioDurations == { 25 * Second, 30 * Second, 45 * Second }

(***************************************************************************)
(* Helpers                                                                 *)
(***************************************************************************)
Range(s) == { s[i] : i \in 1..Len(s) }

RECURSIVE SumSeq(_)
SumSeq(s) == IF s = << >> THEN 0 ELSE s[1] + SumSeq(Tail(s))

Max(a, b) == IF a >= b THEN a ELSE b
Min(a, b) == IF a <= b THEN a ELSE b

\* a / b rounded to the nearest integer.
RoundDiv(a, b) == (2 * a + b) \div (2 * b)

IsPrefix(s, t) == Len(s) <= Len(t) /\ \A i \in 1..Len(s) : s[i] = t[i]

\* Injective sequences of length n over the index set S: the position lists
\* random.sample / random.shuffle can produce.
RECURSIVE Arrangements(_, _)
Arrangements(S, n) ==
    IF n = 0 THEN { << >> }
    ELSE UNION { { Append(f, x) : x \in S \ Range(f) } : f \in Arrangements(S, n - 1) }

CountLog(i) == Cardinality({ k \in 1..Len(log) : log[k].strategy = i })

(***************************************************************************)
(* Files and the external encoder                                          *)
(***************************************************************************)
\* Image files of assets/images.  horror_<i>.png is a hand-made file;
\* horror_generated_<hash of prompt k>_<timestamp>.png is a generated one, the
\* timestamp being 0 for a file of an earlier run and 1 for one this request wrote.
Img(i)    == << "horror", i, 0 >>
Gen(k, t) == << "horror_generated", k, t >>

\* How one blocking ffmpeg.run(..., overwrite_output=True) can end.  ffmpeg-python
\* raises ffmpeg.Error on a non-zero exit status and passes no timeout to
\* communicate(), so a subprocess that never exits blocks the caller forever.
FfmpegOutcomes == { "ok_valid",     \* exit 0, playable file written
                    "ok_empty",     \* exit 0, "Output file is empty, nothing was encoded"
                    "ok_nofile",    \* exit 0, nothing at output_path afterwards
                    "err_partial",  \* exit # 0 after part of the file was written
                    "err_clean",    \* exit # 0 before the output was opened
                    "hang" }        \* the subprocess never exits

IsOk(o)  == o \in { "ok_valid", "ok_empty", "ok_nofile" }
IsErr(o) == o \in { "err_partial", "err_clean" }

\* State of output_path after a run that ended with outcome o, f being its
\* state before.
RunOut(o, f) ==
    CASE o = "ok_valid"    -> "valid"
      [] o = "ok_empty"    -> "empty"
      [] o = "ok_nofile"   -> "none"
      [] o = "err_partial" -> "partial"
      [] o = "hang"        -> "partial"
      [] OTHER             -> f

Exists(f) == f # "none"                \* Path(output_path).exists()

(***************************************************************************)
(* FFmpegVideoProcessor.create_video_from_images: the strategy loop        *)
(***************************************************************************)
BoolStr(b) == IF b THEN "True" ELSE "False"

MethodPc(i) == CASE i = 0 -> "m0" [] i = 1 -> "m1" [] i = 2 -> "m2" [] OTHER -> "m3"

ErrRec(i, who) == [ strategy |-> i, by |-> who ]

\* The loop without its `return True`: a strategy that succeeded is followed
\* by the next one, and the last attempt decides the result.
ChainLoop_NoEarlyReturn(i, r, exists) ==
    IF i < 3
    THEN [ pc |-> MethodPc(i + 1), result |-> "pending", logs |-> << >> ]
    ELSE [ pc |-> "done", result |-> BoolStr(r = "True" /\ exists), logs |-> << >> ]

\* Lines 123-147.  r is what methods[i] handed to the loop ("True", "False",
\* or "raise" when an exception escaped the method), exists the value of
\* Path(output_path).exists() at line 138.
ChainLoop(i, r, exists) ==
    IF r = "True" /\ exists
    THEN [ pc |-> "done", result |-> "True", logs |-> << >> ]
    ELSE LET w == IF r = "raise" THEN << ErrRec(i, "chain") >> ELSE << >>
         IN  IF i < 3
             THEN [ pc |-> MethodPc(i + 1), result |-> "pending", logs |-> w ]
             ELSE [ pc |-> "done", result |-> "False",
                    logs |-> w \o << ErrRec(-1, "chain") >> ]

\* VideoGenerator.create_video lines 454-468: what it returns for the value
\* create_video_from_images gave it.
CreateVideoReturn(success) ==
    IF success = "True" THEN [ path |-> "out", exit |-> "462" ]
                        ELSE [ path |-> "None", exit |-> "468" ]

\* methods[i] returned r (or raised) after logging mlogs and leaving
\* output_path in state newOut; the loop takes over, and when it returns
\* into create_video that method returns too.
Return(i, r, mlogs, newOut) ==
    LET c == ChainLoop(i, r, Exists(newOut))
    IN  /\ attempts' = Append(attempts, i)
        /\ outcomes' = Append(outcomes, r)
        /\ log' = log \o mlogs \o c.logs
        /\ pc' = c.pc
        /\ result' = c.result
        /\ IF entry = "create_video" /\ c.pc = "done"
           THEN /\ video_path' = CreateVideoReturn(c.result).path
                /\ cv_exit' = CreateVideoReturn(c.result).exit
           ELSE UNCHANGED << video_path, cv_exit >>

\* methods[i] is blocked in a subprocess that never exits.
Blocked(i) ==
    /\ attempts' = Append(attempts, i)
    /\ pc' = "hung"
    /\ UNCHANGED << outcomes, log, result, video_path, cv_exit >>

\* Lines 105-121: argument validation and entry into the loop.
ReadableChoices(paths) ==
    { Range(paths), {}, Range(paths) \ { Img(1) } }

SlotList(m, n, d) == [ i \in 1..m |-> IF n > 0 THEN d \div n ELSE d ]

CallCreateVideoFromImages ==
    /\ pc = "idle"
    /\ \E n \in 0..MaxImages, short \in BOOLEAN, d \in AudioDurations,
          a \in { "None", "narration" }, b \in { "None", "music" }, nm \in BOOLEAN :
         LET paths == [ i \in 1..n |-> Img(i) ]
             m     == IF short /\ n > 0 THEN n - 1 ELSE n
         IN  \E rd \in ReadableChoices(paths) :
               /\ entry' = "create_video_from_images"
               /\ image_paths' = paths
               /\ durations' = SlotList(m, n, d)
               /\ audio_path' = a
               /\ background_music_path' = b
               /\ readable' = rd
               /\ narrMuxOk' = nm
               /\ IF n = 0 \/ n # m
                  THEN /\ pc' = "done"
                       /\ result' = "False"
                       /\ log' = Append(log, ErrRec(-1, "validate"))
                  ELSE /\ pc' = "m0"
                       /\ UNCHANGED << result, log >>
    /\ UNCHANGED << fileVars, attempts, outcomes, mixFailed, cvVars, genVars,
                    cv_exit, video_path >>
    /\ UNCHANGED planVars
    /\ UNCHANGED << subVars, guarVars, concVars >>
    /\ UNCHANGED << compVars, sweepVars >>

(***************************************************************************)
(* Strategy 0: _method_opencv_sequence, _create_video_with_opencv and      *)
(* _add_audio_with_ffmpeg                                                  *)
(***************************************************************************)
\* What _create_video_with_opencv leaves at temp_video_path.  cv "ok": the
\* writer opened and every readable image was written; "noopen": the
\* VideoWriter could not open the file (cv2 reports that by isOpened(), which
\* the code never asks, not by an exception); "raise": a cv2 call raised
\* part-way, the finally clause released the writer.
OpenCvTemp(cv) ==
    CASE cv = "noopen" -> "none"
      [] cv = "raise"  -> "partial"
      [] OTHER         -> IF Range(image_paths) \cap readable # {}
                          THEN "frames" ELSE "noframes"

\* Branch of _add_audio_with_ffmpeg (lines 461-503).
AudioMode ==
    CASE audio_path # "None" /\ background_music_path # "None" -> "mixed"
      [] audio_path # "None"                                   -> "narration"
      [] background_music_path # "None"                        -> "music"
      [] OTHER                                                 -> "none"

\* Outcomes the encoder can have when muxing the stream tv: a missing input
\* fails at once, a stream without frames never gives a playable file, and
\* the narration-only mux of a good stream works exactly when narrMuxOk.
MuxAllowed(tv, mode, o) ==
    /\ tv = "none" => o = "err_clean"
    /\ tv = "noframes" => o # "ok_valid"
    /\ (tv = "frames" /\ mode = "narration") => (o = "ok_valid" <=> narrMuxOk)

Method0 ==
    /\ pc = "m0"
    /\ \E cv \in { "ok", "noopen", "raise" }, unlinkOk \in BOOLEAN, o \in FfmpegOutcomes :
         LET tv       == OpenCvTemp(cv)
             mode     == AudioMode
             \* except clause of _method_opencv_sequence, lines 185-189: log,
             \* unlink the temporary stream, return False; an unlink that
             \* raises escapes to the loop.
             Handler(t) ==
                 IF unlinkOk \/ t = "none"
                 THEN /\ tempVideo' = "none"
                      /\ Return(0, "False", << ErrRec(0, "method") >>, outFile)
                 ELSE /\ tempVideo' = t
                      /\ Return(0, "raise", << ErrRec(0, "method") >>, outFile)
         IN  IF cv = "raise"
             THEN /\ Handler(tv)
                  /\ UNCHANGED << outFile, outAudio, mixFailed >>
             ELSE IF mode # "none"
             THEN \* _add_audio_with_ffmpeg(temp_video_path, output_path, ...)
                  /\ MuxAllowed(tv, mode, o)
                  /\ outFile' = RunOut(o, outFile)
                  /\ IF IsOk(o)
                     THEN /\ tempVideo' = "none"          \* line 508
                          /\ outAudio' = IF Exists(outFile') THEN mode ELSE "none"
                          /\ mixFailed' = mixFailed
                          /\ Return(0, BoolStr(Exists(outFile')), << >>, outFile')
                     ELSE IF IsErr(o)
                     THEN /\ tempVideo' = tv              \* line 508 is skipped
                          /\ outAudio' = IF o = "err_partial" THEN "none" ELSE outAudio
                          /\ mixFailed' = (mode = "mixed")
                          /\ Return(0, "False", << ErrRec(0, "method") >>, outFile')
                     ELSE /\ tempVideo' = tv
                          /\ outAudio' = "none"
                          /\ mixFailed' = mixFailed
                          /\ Blocked(0)
             ELSE \* no audio at all: shutil.move(temp_video_path, output_path)
                  IF tv = "none"
                  THEN /\ Handler(tv)
                       /\ UNCHANGED << outFile, outAudio, mixFailed >>
                  ELSE /\ outFile' = IF tv = "frames" THEN "valid" ELSE "empty"
                       /\ outAudio' = "none"
                       /\ tempVideo' = "none"
                       /\ mixFailed' = mixFailed
                       /\ Return(0, "True", << >>, outFile')
    /\ UNCHANGED << entry, chainVars, concatFile, cvVars, genVars >>
    /\ UNCHANGED planVars
    /\ UNCHANGED << subVars, guarVars, concVars >>
    /\ UNCHANGED << compVars, sweepVars >>

(***************************************************************************)
(* What strategies 1 and 2 give the encoder                                *)
(***************************************************************************)
Directive(kind, arg) == [ kind |-> kind, arg |-> arg ]

\* Lines 535-536 left out: no closing `file` line.
LastImageAgain_Omitted(paths) == << >>

\* Lines 534-536: "Add last image again for proper duration"
LastImageAgain(paths) ==
    IF paths # << >> THEN << Directive("file", paths[Len(paths)]) >> ELSE << >>

\* Lines 530-532: zip(image_paths, durations), a `file` and a `duration` line
\* for each pair.
RECURSIVE DirectivePairs(_, _)
DirectivePairs(paths, durs) ==
    IF paths = << >> \/ durs = << >> THEN << >>
    ELSE << Directive("file", paths[1]), Directive("duration", durs[1]) >>
           \o DirectivePairs(Tail(paths), Tail(durs))

\* _create_ffmpeg_concat_file, lines 516-538
create_ffmpeg_concat_file(paths, durs) ==
    DirectivePairs(paths, durs) \o LastImageAgain(paths)

\* Line 277: output_stream = input_streams[0]; no other stream reaches
\* ffmpeg.output.
Encoded(input_streams) == << input_streams[1] >>

\* _method_simple_slideshow, lines 268-300: avg_duration is computed and not
\* used again; the encoded stream is cut at t = sum(durations).
simple_slideshow(paths, durs) ==
    LET input_streams == SubSeq(paths, 1, Min(5, Len(paths)))
    IN  [ avg_duration  |-> SumSeq(durs) \div Len(durs),
          input_streams |-> input_streams,
          encoded       |-> Encoded(input_streams),
          t             |-> SumSeq(durs) ]

(***************************************************************************)
(* Strategies 1 to 3: one ffmpeg run each, narration as the only audio     *)
(***************************************************************************)
\* A strategy that passes the music on to the encoder as strategy 0 does.
NarrationOnly_WithMusic == AudioMode

\* Lines 225-236, 279-290, 335-346: audio_path is the only audio input
NarrationOnly == IF audio_path # "None" THEN "narration" ELSE "none"

\* Body shared by the three methods after their inputs are built:
\* ffmpeg.run(...) followed by `return Path(output_path).exists()`, inside
\* `try ... except Exception: log; return False`.
RunAndReturn(i, o) ==
    /\ outFile' = RunOut(o, outFile)
    /\ IF IsOk(o)
       THEN /\ outAudio' = IF Exists(outFile') THEN NarrationOnly ELSE "none"
            /\ Return(i, BoolStr(Exists(outFile')), << >>, outFile')
       ELSE IF IsErr(o)
       THEN /\ outAudio' = IF o = "err_partial" THEN "none" ELSE outAudio
            /\ Return(i, "False", << ErrRec(i, "method") >>, outFile')
       ELSE /\ outAudio' = "none"
            /\ Blocked(i)

\* _method_ffmpeg_concat, lines 207-248: the manifest is written first and
\* unlinked at line 242, which only a run that returned normally reaches.
Method1 ==
    /\ pc = "m1"
    /\ \E o \in FfmpegOutcomes :
         /\ RunAndReturn(1, o)
         /\ concatFile' = ~IsOk(o)
    /\ UNCHANGED << entry, chainVars, tempVideo, mixFailed, cvVars, genVars >>
    /\ concat_manifest' = create_ffmpeg_concat_file(image_paths, durations)
    /\ UNCHANGED slideshow
    /\ UNCHANGED << subVars, guarVars, concVars >>
    /\ UNCHANGED << compVars, sweepVars >>

\* _method_simple_slideshow, lines 266-307.  `if not input_streams` cannot
\* hold: image_paths is non-empty once the loop is entered.
Method2 ==
    /\ pc = "m2"
    /\ \E o \in FfmpegOutcomes : RunAndReturn(2, o)
    /\ UNCHANGED << entry, chainVars, tempVideo, concatFile, mixFailed, cvVars, genVars >>
    /\ slideshow' = simple_slideshow(image_paths, durations)
    /\ UNCHANGED concat_manifest
    /\ UNCHANGED << subVars, guarVars, concVars >>
    /\ UNCHANGED << compVars, sweepVars >>

\* _method_basic_conversion, lines 325-363.
Method3 ==
    /\ pc = "m3"
    /\ \E o \in FfmpegOutcomes : RunAndReturn(3, o)
    /\ UNCHANGED << entry, chainVars, tempVideo, concatFile, mixFailed, cvVars, genVars >>
    /\ UNCHANGED planVars
    /\ UNCHANGED << subVars, guarVars, concVars >>
    /\ UNCHANGED << compVars, sweepVars >>

(***************************************************************************)
(* OpenAIImageGenerator: the Image Availability Guarantor                  *)
(***************************************************************************)
image_duration == 10      \* seconds per image, VideoGenerator.__init__
CacheEnabled   == TRUE    \* default of video.images.cache_enabled

\* create_video line 351
ImagesNeeded(d) == Max(3, d \div (image_duration * Second))

MaxNeeded == CHOOSE n \in { ImagesNeeded(d) : d \in AudioDurations } :
                 \A d \in AudioDurations : ImagesNeeded(d) <= n
PromptIdx == 0..(MaxNeeded - 1)

\* get_existing_images, lines 314-320: the results of two globs are
\* concatenated.  "horror_*.png" matches every image file of the directory,
\* the generated ones included; "horror_generated_*.png" matches the
\* generated ones once more.
\* Time stamps (to the second) of generated files: 0 for files of earlier
\* runs, 1 and 2 for the first and the second call of a behaviour.
Stamps == 0..2

\* Two render requests.
Requests == { 1, 2 }

AllImageFiles ==
    [ i \in 1..MaxOrig |-> Img(i) ]
      \o [ j \in 1..(Cardinality(Stamps) * MaxNeeded) |->
             Gen((j - 1) \div Cardinality(Stamps), (j - 1) % Cardinality(Stamps)) ]
GlobHorror(dir)          == SelectSeq(AllImageFiles, LAMBDA f : f \in dir)
GlobHorrorGenerated(dir) ==
    SelectSeq(AllImageFiles, LAMBDA f : f \in dir /\ f[1] = "horror_generated")
get_existing_images(dir) == GlobHorror(dir) \o GlobHorrorGenerated(dir)

\* What one pass of the loop body of generate_images (lines 243-302) can meet
\* after a cache miss.
GenOutcomes == { "ok",        \* image generated, downloaded and valid
                 "invalid",   \* file written but not larger than 1000 bytes
                 "fail" }     \* API error, empty answer or failed download

CachePut(c, k, f) == [ x \in DOMAIN c \cup { k } |-> IF x = k THEN f ELSE c[x] ]

\* Lines 53-54: the instance's settings, and another size an index written
\* under an earlier configuration can hold.
image_quality == "standard"
image_size    == "1792x1024"
ImageSizes    == { image_size, "1024x1024" }

\* Lines 244-245: f"{md5(prompt)}_{size}_{quality}"; prompt k stands for its
\* digest.
cache_key(k) == << k, image_size, image_quality >>

\* A cache check that never hits.
CacheHit_Never(k, cache, dir) == FALSE

\* Lines 247-249
CacheHit(k, cache, dir) ==
    CacheEnabled /\ cache_key(k) \in DOMAIN cache /\ cache[cache_key(k)] \in dir

\* A loop that gives up at the first prompt that yields no image.
NextPrompt_AbortOnFailure(k, num_images, how) ==
    IF how \in { "invalid", "fail" } THEN num_images ELSE k + 1

\* Lines 252, 300-302: `continue`, or the end of the loop body: in every case
\* the loop goes on with the next prompt.
NextPrompt(k, num_images, how) == k + 1

Step(k, how, path) == [ prompt |-> k, how |-> how, path |-> path ]

\* generate_images, lines 236-305, from prompt k on.  g holds the list built so
\* far, the directory, the cache index, the number of API calls and what was
\* done for each prompt; gen[k] is what the collaborator does for prompt k,
\* now the time stamp of the files written.
RECURSIVE GenerateFrom(_, _, _, _, _)
GenerateFrom(k, num_images, gen, g, now) ==
    IF k >= num_images THEN g
    ELSE IF CacheHit(k, g.cache, g.dir)
    THEN GenerateFrom(NextPrompt(k, num_images, "hit"), num_images, gen,
                      [ g EXCEPT !.paths = Append(@, g.cache[cache_key(k)]),
                                 !.steps = Append(@, Step(k, "hit", g.cache[cache_key(k)])) ],
                      now)
    ELSE LET called == [ g EXCEPT !.calls = @ + 1,
                                  !.steps = Append(@, Step(k, gen[k], Gen(k, now))) ]
             next   == NextPrompt(k, num_images, gen[k])
         IN  CASE gen[k] = "ok" ->
                    GenerateFrom(next, num_images, gen,
                        [ called EXCEPT !.paths = Append(@, Gen(k, now)),
                                        !.dir   = @ \cup { Gen(k, now) },
                                        !.cache = IF CacheEnabled
                                                  THEN CachePut(@, cache_key(k), Gen(k, now))
                                                  ELSE @ ],
                        now)
               [] gen[k] = "invalid" ->
                    GenerateFrom(next, num_images, gen,
                        [ called EXCEPT !.dir = @ \cup { Gen(k, now) } ], now)
               [] OTHER -> GenerateFrom(next, num_images, gen, called, now)

generate_images(num_images, gen, dir, cache, now) ==
    GenerateFrom(0, num_images, gen,
                 [ paths |-> << >>, dir |-> dir, cache |-> cache, calls |-> 0,
                   steps |-> << >> ], now)

Pick(list, p) == [ i \in 1..Len(p) |-> list[p[i]] ]

\* random.sample(list, n) that hands back the whole list.
Sample_Whole(list, n) ==
    { Pick(list, p) : p \in Arrangements(1..Len(list), Len(list)) }

\* random.sample(list, n) followed by random.shuffle, lines 343-344: n
\* positions of the list, in any order.
Sample(list, n) == { Pick(list, p) : p \in Arrangements(1..Len(list), n) }

\* ensure_sufficient_images, lines 334-370.  The set of records it can return:
\* one per outcome of random.sample / random.shuffle.
ensure_sufficient_images(required_count, client, gen, dir, cache, now) ==
    LET existing_images == get_existing_images(dir)
        same(paths) == [ paths |-> paths, dir |-> dir, cache |-> cache, calls |-> 0,
                         steps |-> << >>, new_images |-> << >> ]
    IN  IF Len(existing_images) >= required_count
        THEN { same(paths) : paths \in Sample(existing_images, required_count) }
        ELSE IF ~client
        THEN { same(existing_images) }
        ELSE LET images_needed_ == required_count - Len(existing_images)
                 g          == generate_images(images_needed_, gen, dir, cache, now)
                 all_images == existing_images \o g.paths
                 n          == Len(all_images)
             IN  { [ paths      |-> IF n >= required_count
                                    THEN SubSeq(Pick(all_images, p), 1, required_count)
                                    ELSE Pick(all_images, p),
                     dir        |-> g.dir,
                     cache      |-> g.cache,
                     calls      |-> g.calls,
                     steps      |-> g.steps,
                     new_images |-> g.paths ] :
                   p \in Arrangements(1..n, n) }

(***************************************************************************)
(* VideoGenerator.create_video                                             *)
(***************************************************************************)
\* Parameters create_video_from_images declares (lines 76-87, no **kwargs) and
\* the keywords create_video passes at lines 441-452.
ProcessorParams ==
    { "image_paths", "durations", "audio_path", "output_path",
      "background_music_path", "music_volume", "crossfade_duration",
      "resolution", "fps" }
CallKeywords == ProcessorParams \cup { "subtitle_path" }

\* Python binds a call only if every keyword names a parameter; otherwise the
\* call raises TypeError before the body of the callee runs.
BindsCall == CallKeywords \subseteq ProcessorParams

\* Slots sized by the number of images asked for, not by the number obtained.
SlotDurations_ByImagesNeeded(d, paths) ==
    [ i \in 1..Len(paths) |-> d \div ImagesNeeded(d) ]

\* Line 439: [audio_duration / len(all_image_paths)] * len(all_image_paths)
SlotDurations(d, paths) == [ i \in 1..Len(paths) |-> d \div Len(paths) ]

\* The guard without its test: an empty list is let through.
NoImages_Ignored(paths) == FALSE

\* Line 366: `if not all_image_paths`
NoImages(paths) == paths = << >>

\* Directory contents and cache indexes a request can find.
DirChoices ==
    { { Img(i) : i \in 1..n } \cup { Gen(k, 0) : k \in K } :
        n \in 0..MaxOrig, K \in SUBSET (0..MaxGenIdx) }
CacheChoices ==
    { [ key \in { << k, sz, image_quality >> : k \in K } |-> Gen(key[1], 0) ] :
        K \in SUBSET (0..MaxGenIdx), sz \in ImageSizes }

\* Prompts generate_images will work through in this call.
PromptsOf(required_count, client, dir) ==
    IF client /\ Len(get_existing_images(dir)) < required_count
    THEN 0..(required_count - Len(get_existing_images(dir)) - 1)
    ELSE {}

CreateVideo ==
    /\ pc = "idle"
    /\ entry' = "create_video"
    /\ \E ae \in BOOLEAN :
         /\ audio_file_exists' = ae
         /\ IF ~ae
            THEN \* lines 322-325
                 /\ pc' = "done" /\ video_path' = "None" /\ cv_exit' = "325"
                 /\ UNCHANGED << chainVars, audio_duration, images_needed,
                                 all_image_paths, image_durations, music_file_exists,
                                 ffmpeg_available, processor_constructed, genVars >>
            ELSE \E d \in AudioDurations, dir \in DirChoices,
                    cache \in CacheChoices, client \in BOOLEAN :
                 \E gen \in [ PromptsOf(ImagesNeeded(d), client, dir) -> GenOutcomes ] :
                 \E g \in ensure_sufficient_images(ImagesNeeded(d), client, gen, dir, cache, 1) :
                 /\ audio_duration' = d
                 /\ images_needed' = ImagesNeeded(d)
                 /\ all_image_paths' = g.paths
                 /\ images_dir' = g.dir
                 /\ cache_data' = g.cache
                 /\ generation_calls' = g.calls
                 /\ IF NoImages(g.paths)
                    THEN \* lines 366-368
                         /\ pc' = "done" /\ video_path' = "None" /\ cv_exit' = "368"
                         /\ UNCHANGED << chainVars, image_durations, music_file_exists,
                                         ffmpeg_available, processor_constructed >>
                    ELSE \E mf \in BOOLEAN, ff \in BOOLEAN :
                         \* lines 389-396: the music file is looked up
                         /\ music_file_exists' = mf
                         /\ background_music_path' = IF mf THEN "music" ELSE "None"
                         \* line 436: the constructor runs `ffmpeg -version`
                         /\ ffmpeg_available' = ff
                         /\ processor_constructed' = ff
                         /\ IF ~ff
                            THEN \* RuntimeError, caught at line 470
                                 /\ pc' = "done" /\ video_path' = "None" /\ cv_exit' = "472"
                                 /\ UNCHANGED << image_paths, durations, audio_path,
                                                 readable, narrMuxOk, image_durations >>
                            ELSE /\ image_durations' = SlotDurations(d, g.paths)
                                 /\ image_paths' = g.paths
                                 /\ durations' = image_durations'
                                 /\ audio_path' = "narration"
                                 /\ IF BindsCall
                                    THEN /\ pc' = "m0"
                                         /\ readable' \in ReadableChoices(g.paths)
                                         /\ narrMuxOk' \in BOOLEAN
                                         /\ UNCHANGED << video_path, cv_exit >>
                                    ELSE \* TypeError, caught at line 470
                                         /\ pc' = "done"
                                         /\ video_path' = "None" /\ cv_exit' = "472"
                                         /\ UNCHANGED << readable, narrMuxOk >>
    /\ UNCHANGED << fileVars, attempts, outcomes, log, mixFailed, result >>
    /\ UNCHANGED planVars
    /\ UNCHANGED << subVars, guarVars, concVars >>
    /\ UNCHANGED << compVars, sweepVars >>

(***************************************************************************)
(* SubtitleGenerator: the Subtitle Timer                                   *)
(***************************************************************************)
words_per_subtitle == 8     \* default of video.subtitles.words_per_subtitle

\* A text is modelled after _clean_text: a sequence of sentences, a sentence
\* being n words of w characters each.  A caption text is the record of its
\* position in the list and its number of characters.
Caption(i, n) == [ id |-> i, len |-> n ]
Captions(lens) == [ i \in 1..Len(lens) |-> Caption(i, lens[i]) ]

\* Characters of words joined by single separators (' ' within a line, '\n'
\* between the lines _break_into_lines makes: the length is the same).
JoinedLen(k, w) == k * w + (k - 1)

\* Lines 139-151 for one sentence: groups of words_per_subtitle words.
SentenceLens(st) ==
    LET groups == (st.n + words_per_subtitle - 1) \div words_per_subtitle
    IN  [ g \in 1..groups |->
            JoinedLen(Min(words_per_subtitle, st.n - words_per_subtitle * (g - 1)), st.w) ]

RECURSIVE SplitLens(_)
SplitLens(text) ==
    IF text = << >> THEN << >>
    ELSE ( IF text[1].n = 0 THEN << >> ELSE SentenceLens(text[1]) ) \o SplitLens(Tail(text))

\* _split_text_into_segments, lines 119-153
split_text_into_segments(text) == Captions(SplitLens(text))

\* len(segment) / total_chars * total_duration is rounded to the nearest
\* microsecond with RoundDiv (a double rounds to nearest as well, at a finer
\* grain).
TotalChars(segments) == SumSeq([ i \in 1..Len(segments) |-> segments[i].len ])

\* Lines 214-218
SegmentDuration(seg, segments, d) ==
    LET total_chars == TotalChars(segments)
        share == IF total_chars > 0 THEN RoundDiv(d * seg.len, total_chars)
                                    ELSE RoundDiv(d, Len(segments))
    IN  Max(Second, share)

\* The end time without the clamp to the audio duration.
EndTime_Unclamped(current_time, segment_duration, d) == current_time + segment_duration

\* Line 221
EndTime(current_time, segment_duration, d) == Min(current_time + segment_duration, d)

ReachedEnd_Never(current_time, d) == FALSE

\* Lines 226-228: stop once the accumulated time has reached total_duration
ReachedEnd(current_time, d) == current_time >= d

\* The loop of lines 212-228 from segment i on.
RECURSIVE TimingFrom(_, _, _, _, _)
TimingFrom(i, current_time, acc, segments, d) ==
    IF i > Len(segments) THEN acc
    ELSE LET end_time == EndTime(current_time, SegmentDuration(segments[i], segments, d), d)
             acc2 == Append(acc, [ start |-> current_time, end |-> end_time,
                                   text |-> segments[i] ])
         IN  IF ReachedEnd(end_time, d) THEN acc2
             ELSE TimingFrom(i + 1, end_time, acc2, segments, d)

\* _calculate_timing, lines 188-230
calculate_timing(segments, d) ==
    IF segments = << >> THEN << >> ELSE TimingFrom(1, 0, << >>, segments, d)

\* ---- inputs ----
MaxSegments  == 3     \* longest caption list of a direct _calculate_timing call
MaxSentences == 2     \* most sentences of a text

SegLens      == { 0, 1, 7 }
SubDurations == { 0, Second \div 2, Second + Second \div 2, 2 * Second + Second \div 2, 10 * Second }
Sentences    == { [ n |-> 0, w |-> 1 ], [ n |-> 1, w |-> 3 ],
                  [ n |-> 2, w |-> 5 ], [ n |-> 9, w |-> 1 ] }

SeqsUpTo(S, n) == UNION { [ 1..k -> S ] : k \in 0..n }

\* generate_subtitle_file, lines 59-90
GenerateSubtitleFile ==
    /\ sub_pc = "call"
    /\ sub_call = "generate_subtitle_file"
    /\ sub_segments' = split_text_into_segments(sub_text)
    /\ IF sub_segments' = << >>
       THEN \* lines 66-68: warning, return None
            /\ timed_segments' = << >>
            /\ subtitle_ret' = "None"
       ELSE /\ timed_segments' = calculate_timing(sub_segments', total_duration)
            /\ subtitle_ret' = "srt"
    /\ sub_pc' = "done"
    /\ UNCHANGED << sub_call, sub_text, total_duration >>
    /\ UNCHANGED << renderVars, guarVars, concVars >>
    /\ UNCHANGED << compVars, sweepVars >>

\* A direct call of _calculate_timing
CalculateTiming ==
    /\ sub_pc = "call"
    /\ sub_call = "_calculate_timing"
    /\ timed_segments' = calculate_timing(sub_segments, total_duration)
    /\ sub_pc' = "done"
    /\ UNCHANGED << sub_call, sub_text, sub_segments, total_duration, subtitle_ret >>
    /\ UNCHANGED << renderVars, guarVars, concVars >>
    /\ UNCHANGED << compVars, sweepVars >>

(***************************************************************************)
(* ensure_sufficient_images called on its own, once or twice               *)
(***************************************************************************)
\* required_count of the calls; create_video asks for 3 or more (line 351).
RequiredCounts == { 1, 2, 3, 4 }

\* Directories a call can find: fewer files than the largest request, so that
\* requests below and above the number of files both occur.
GuarDirChoices ==
    { d \in DirChoices : \E n \in RequiredCounts : Cardinality(d) < n }

\* Both calls of a behaviour have the same theme and required_count.
Calls == { 1, 2 }

\* How often each path occurs in a returned list.  The order of the list
\* is random (lines 344, 367) and nothing later depends on it.
Occurrences(paths) ==
    [ f \in Range(paths) |-> Cardinality({ i \in DOMAIN paths : paths[i] = f }) ]

\* The result of one call, with what the call found.
CallRecord(g) ==
    [ dir |-> g_dir, cache |-> g_cache, changed |-> g_changed,
      paths |-> Occurrences(g.paths), n_paths |-> Len(g.paths),
      calls |-> g.calls, steps |-> g.steps, new_images |-> g.new_images,
      dir_after |-> g.dir, cache_after |-> g.cache ]

\* ensure_sufficient_images, lines 322-370
EnsureSufficientImages ==
    /\ g_pc = "on"
    /\ Len(g_hist) + 1 \in Calls
    /\ \E gen \in [ PromptsOf(g_required, g_client, g_dir) -> GenOutcomes ] :
       \E r \in { CallRecord(g) :
                    g \in ensure_sufficient_images(g_required, g_client, gen,
                                                   g_dir, g_cache, Len(g_hist) + 1) } :
         /\ g_dir' = r.dir_after
         /\ g_cache' = r.cache_after
         /\ g_hist' = Append(g_hist, r)
    /\ UNCHANGED << g_pc, g_required, g_client, g_changed >>
    /\ UNCHANGED << renderVars, subVars, concVars >>
    /\ UNCHANGED << compVars, sweepVars >>

\* Between the two calls somebody removes an image file from the directory.
DeleteImage ==
    /\ g_pc = "on"
    /\ Len(g_hist) = 1
    /\ ~g_changed
    /\ \E f \in g_dir : g_dir' = g_dir \ { f }
    /\ g_changed' = TRUE
    /\ UNCHANGED << g_pc, g_required, g_client, g_cache, g_hist >>
    /\ UNCHANGED << renderVars, subVars, concVars >>
    /\ UNCHANGED << compVars, sweepVars >>

(***************************************************************************)
(* Two requests running generate_images on the same directory              *)
(***************************************************************************)
MaxBatch == 2         \* most prompts of one request's batch

\* The prompts of a batch of n images for a theme (lines 196-213): prompt i of
\* a theme is the same text whatever n is; another theme gives other texts.
Themes == { 0, 1 }
PromptsFor(theme, n) == [ i \in 1..n |-> theme * MaxNeeded + (i - 1) ]

CurrentPrompt(p) == c_prompts[p][c_k[p]]

\* __init__, line 59: the instance reads the index file into its cache_data.
LoadCache(p) ==
    /\ c_pc[p] = "new"
    /\ c_mem' = [ c_mem EXCEPT ![p] = c_disk ]
    /\ c_pc' = [ c_pc EXCEPT ![p] = "check" ]
    /\ UNCHANGED << c_prompts, c_k, c_called, c_added, c_disk, c_dir >>
    /\ UNCHANGED << renderVars, subVars, guarVars >>
    /\ UNCHANGED << compVars, sweepVars >>

\* Lines 239-252: the next prompt, looked up in the instance's cache_data.
CheckCache(p) ==
    /\ c_pc[p] = "check"
    /\ IF c_k[p] > Len(c_prompts[p])
       THEN /\ c_pc' = [ c_pc EXCEPT ![p] = "done" ]
            /\ UNCHANGED c_k
       ELSE IF CacheHit(CurrentPrompt(p), c_mem[p], c_dir)
       THEN /\ c_k' = [ c_k EXCEPT ![p] = @ + 1 ]
            /\ UNCHANGED c_pc
       ELSE /\ c_pc' = [ c_pc EXCEPT ![p] = "call" ]
            /\ UNCHANGED c_k
    /\ UNCHANGED << c_prompts, c_mem, c_called, c_added, c_disk, c_dir >>
    /\ UNCHANGED << renderVars, subVars, guarVars >>
    /\ UNCHANGED << compVars, sweepVars >>

\* Lines 254-302: the collaborator is called; on success the file is written,
\* the entry is put into the instance's cache_data and _save_cache (lines
\* 78-85) rewrites the whole index file from it.
Generate(p) ==
    /\ c_pc[p] = "call"
    /\ c_called' = [ c_called EXCEPT ![p] = @ \cup { cache_key(CurrentPrompt(p)) } ]
    /\ \E how \in GenOutcomes, now \in Stamps \ { 0 } :
         LET file == Gen(CurrentPrompt(p), now)
         IN  CASE how = "ok" ->
                    /\ c_dir' = c_dir \cup { file }
                    /\ c_mem' = [ c_mem EXCEPT ![p] =
                                    IF CacheEnabled
                                    THEN CachePut(@, cache_key(CurrentPrompt(p)), file)
                                    ELSE @ ]
                    /\ c_disk' = IF CacheEnabled THEN c_mem'[p] ELSE c_disk
                    /\ c_added' = [ c_added EXCEPT ![p] =
                                      IF CacheEnabled
                                      THEN @ \cup { cache_key(CurrentPrompt(p)) } ELSE @ ]
               [] how = "invalid" ->
                    /\ c_dir' = c_dir \cup { file }
                    /\ UNCHANGED << c_mem, c_disk, c_added >>
               [] OTHER -> UNCHANGED << c_dir, c_mem, c_disk, c_added >>
    /\ c_k' = [ c_k EXCEPT ![p] = @ + 1 ]
    /\ c_pc' = [ c_pc EXCEPT ![p] = "check" ]
    /\ UNCHANGED c_prompts
    /\ UNCHANGED << renderVars, subVars, guarVars >>
    /\ UNCHANGED << compVars, sweepVars >>

(***************************************************************************)
(* The frame compositor: _create_video_with_opencv                         *)
(***************************************************************************)
default_fps == 24     \* FFmpegVideoProcessor.__init__, and the fps default

\* int(seconds * fps), lines 401 and 411
FrameCount(t, fps_) == (t * fps_) \div Second

\* A run of equal-kind frames written for slot i: `frames` blends of prev into
\* image, or `frames` copies of image.
FrameRun(kind, i, prev, image, frames) ==
    [ kind |-> kind, slot |-> i, prev |-> prev, image |-> image, frames |-> frames ]

\* A crossfade that blends from the previous image without looking at what
\* imread returned for it.
PrevLoaded_Unchecked(prev, rd) == TRUE

\* Lines 416-417: prev_image = cv2.imread(image_paths[i-1]), is not None
PrevLoaded(prev, rd) == prev \in rd

\* Lines 403-432 from slot i on (slots counted from 1); runs is what
\* video_writer has been given so far.
RECURSIVE ComposeFrom(_, _, _, _, _, _, _)
ComposeFrom(i, paths, durs, rd, fps_, crossfade, runs) ==
    IF i > Min(Len(paths), Len(durs)) THEN runs
    ELSE IF paths[i] \notin rd
    THEN ComposeFrom(i + 1, paths, durs, rd, fps_, crossfade, runs)
    ELSE LET crossfade_frames == FrameCount(crossfade, fps_)
             total_frames     == FrameCount(durs[i], fps_)
             fade   == i > 1 /\ crossfade_frames > 0 /\ PrevLoaded(paths[i - 1], rd)
             blend  == IF fade
                       THEN << FrameRun("crossfade", i, paths[i - 1], paths[i],
                                        crossfade_frames) >>
                       ELSE << >>
             remain == IF fade THEN total_frames - crossfade_frames ELSE total_frames
             main   == << FrameRun("steady", i, paths[i], paths[i], Max(1, remain)) >>
         IN  ComposeFrom(i + 1, paths, durs, rd, fps_, crossfade, runs \o blend \o main)

\* _create_video_with_opencv, lines 398-435
create_video_with_opencv(paths, durs, rd, fps_, crossfade) ==
    ComposeFrom(1, paths, durs, rd, fps_, crossfade, << >>)

\* ---- inputs ----
SlotChoices      == { Second \div 2, Second, 9 * Second, 9 * Second + 98 * (Second \div 100) }
CrossfadeChoices == { 0, Second }

CreateVideoWithOpencv ==
    /\ w_pc = "call"
    /\ video_writer' = create_video_with_opencv(w_image_paths, w_durations, w_readable,
                                                w_fps, w_crossfade)
    /\ w_pc' = "done"
    /\ UNCHANGED << w_image_paths, w_durations, w_readable, w_fps, w_crossfade >>
    /\ UNCHANGED << renderVars, subVars, guarVars, concVars, sweepVars >>

(***************************************************************************)
(* The eviction sweep: cleanup_cache                                       *)
(***************************************************************************)
MaxEntries == 3       \* most keys the index and the directory are drawn over

default_max_age_days == 30     \* cleanup_cache, default of max_age_days

\* An index entry: file_path and the age in days (now - generated_at) at the
\* time of the sweep.
CacheEntry(file, age) == [ file |-> file, age |-> age ]

\* A test that also takes the entries generated exactly at the cutoff.
Expired_AtCutoff(cache_entry, max_age_days) == cache_entry.age >= max_age_days

\* Lines 381, 387: generated_at < now - timedelta(days=max_age_days)
Expired(cache_entry, max_age_days) == cache_entry.age > max_age_days

\* Lines 389-391: unlink is called when the file exists, and may raise
UnlinkRaises(file, files, locked) == file \in files /\ file \in locked

\* Lines 384-398: the keys whose `del` at line 394 is reached.  An unlink that
\* raises jumps to the handler of line 397 before the `del`.
Removed(index, files, locked, max_age_days) ==
    { k \in DOMAIN index : /\ Expired(index[k], max_age_days)
                           /\ ~UnlinkRaises(index[k].file, files, locked) }

\* cleanup_cache, lines 372-406.  saved says whether the write of _save_cache
\* (lines 78-85) went through.
cleanup_cache(index, total, files, locked, max_age_days, cache_file, saved) ==
    LET removed       == Removed(index, files, locked, max_age_days)
        removed_count == Cardinality(removed)
        kept          == [ k \in DOMAIN index \ removed |-> index[k] ]
        total_images  == IF removed_count > 0 THEN Cardinality(DOMAIN kept) ELSE total
    IN  [ index |-> kept,
          total |-> total_images,
          files |-> files \ { index[k].file : k \in removed },
          cache_file |-> IF removed_count > 0 /\ saved
                         THEN [ index |-> kept, total |-> total_images ]
                         ELSE cache_file ]

\* ---- inputs ----
SweepKeys     == 1..MaxEntries
AgeChoices    == { default_max_age_days - 1, default_max_age_days, default_max_age_days + 1 }
MaxAgeChoices == { default_max_age_days - 1, default_max_age_days }

CleanupCache ==
    /\ k_pc = "call"
    /\ \E saved \in BOOLEAN :
         LET r == cleanup_cache(k_index, k_total, k_files, k_locked, k_max_age,
                                k_cache_file, saved)
         IN  /\ k_index' = r.index
             /\ k_total' = r.total
             /\ k_files' = r.files
             /\ k_cache_file' = r.cache_file
    /\ k_before' = [ index |-> k_index, files |-> k_files ]
    /\ k_pc' = "done"
    /\ UNCHANGED << k_max_age, k_locked >>
    /\ UNCHANGED << renderVars, subVars, guarVars, concVars, compVars >>

(***************************************************************************)
(* Specification                                                           *)
(***************************************************************************)
\* No render request has been made yet.
RenderIdle ==
    /\ pc = "idle"
    /\ entry = "none"
    /\ image_paths = << >>
    /\ durations = << >>
    /\ audio_path = "None"
    /\ background_music_path = "None"
    /\ readable = {}
    /\ narrMuxOk = FALSE
    /\ outFile = "none"
    /\ outAudio = "none"
    /\ tempVideo = "none"
    /\ concatFile = FALSE
    /\ attempts = << >>
    /\ outcomes = << >>
    /\ log = << >>
    /\ mixFailed = FALSE
    /\ result = "pending"
    /\ audio_file_exists = FALSE
    /\ audio_duration = 0
    /\ images_needed = 0
    /\ all_image_paths = << >>
    /\ image_durations = << >>
    /\ music_file_exists = FALSE
    /\ ffmpeg_available = FALSE
    /\ processor_constructed = FALSE
    /\ cv_exit = "none"
    /\ video_path = "pending"
    /\ images_dir = {}
    /\ cache_data = << >>
    /\ generation_calls = 0
    /\ concat_manifest = << >>
    /\ slideshow = << >>

\* The subtitle generator is not part of the behaviour.
SubtitleOff ==
    /\ sub_pc = "off"
    /\ sub_call = "none"
    /\ sub_text = << >>
    /\ sub_segments = << >>
    /\ total_duration = 0
    /\ timed_segments = << >>
    /\ subtitle_ret = "pending"

\* ensure_sufficient_images is not called on its own.
GuarantorOff ==
    /\ g_pc = "off"
    /\ g_required = 0
    /\ g_client = FALSE
    /\ g_dir = {}
    /\ g_cache = << >>
    /\ g_changed = FALSE
    /\ g_hist = << >>

\* No concurrent batches.
ConcurrentOff ==
    /\ c_pc = [ p \in Requests |-> "off" ]
    /\ c_prompts = [ p \in Requests |-> << >> ]
    /\ c_k = [ p \in Requests |-> 1 ]
    /\ c_mem = [ p \in Requests |-> << >> ]
    /\ c_called = [ p \in Requests |-> {} ]
    /\ c_added = [ p \in Requests |-> {} ]
    /\ c_disk = << >>
    /\ c_dir = {}

\* _create_video_with_opencv is not called on its own.
CompositorOff ==
    /\ w_pc = "off"
    /\ w_image_paths = << >>
    /\ w_durations = << >>
    /\ w_readable = {}
    /\ w_fps = 0
    /\ w_crossfade = 0
    /\ video_writer = << >>

\* cleanup_cache is not called.
SweepOff ==
    /\ k_pc = "off"
    /\ k_index = << >>
    /\ k_total = 0
    /\ k_files = {}
    /\ k_max_age = 0
    /\ k_locked = {}
    /\ k_before = << >>
    /\ k_cache_file = << >>

Init == RenderIdle /\ SubtitleOff /\ GuarantorOff /\ ConcurrentOff
          /\ CompositorOff /\ SweepOff

Next ==
    \/ CallCreateVideoFromImages
    \/ CreateVideo
    \/ Method0
    \/ Method1
    \/ Method2
    \/ Method3

Spec == Init /\ [][Next]_vars

\* The Subtitle Timer on its own: the arguments of one call are drawn, the
\* call is made.
SubInit ==
    /\ RenderIdle /\ GuarantorOff /\ ConcurrentOff /\ CompositorOff /\ SweepOff
    /\ sub_pc = "call"
    /\ total_duration \in SubDurations
    /\ timed_segments = << >>
    /\ subtitle_ret = "pending"
    /\ \/ /\ sub_call = "_calculate_timing"
          /\ sub_text = << >>
          /\ sub_segments \in { Captions(l) : l \in SeqsUpTo(SegLens, MaxSegments) }
       \/ /\ sub_call = "generate_subtitle_file"
          /\ sub_text \in SeqsUpTo(Sentences, MaxSentences)
          /\ sub_segments = << >>

SubNext == CalculateTiming \/ GenerateSubtitleFile

SubSpec == SubInit /\ [][SubNext]_vars

(***************************************************************************)
(* Properties of the strategy chain                                        *)
(***************************************************************************)
ChainOrder == << 0, 1, 2, 3 >>

AttemptFailed(k) == outcomes[k] \in { "False", "raise" }

InvalidArguments == image_paths = << >> \/ Len(image_paths) # Len(durations)

\* What holds of every call, whatever its arguments: the strategies are
\* entered in priority order, each at most once, a strategy is entered only
\* after its predecessor failed, and success is the success of the strategy
\* entered last.
ChainDiscipline ==
    /\ IsPrefix(attempts, ChainOrder)
    /\ Len(outcomes) <= Len(attempts)
    /\ \A k \in 1..Len(outcomes) : k < Len(attempts) => AttemptFailed(k)
    /\ result = "True" =>
          /\ attempts # << >>
          /\ Len(outcomes) = Len(attempts)
          /\ outcomes[Len(outcomes)] = "True"
          /\ Exists(outFile)

AllFourFailed ==
    /\ attempts = ChainOrder
    /\ Len(outcomes) = 4
    /\ \A k \in 1..4 : AttemptFailed(k)

NoAttemptFailed == \A k \in 1..Len(outcomes) : ~AttemptFailed(k)

\* C2: when the narration file exists, at least one image is available and
\* the encoder is there for the strategies to use (none of them has failed),
\* create_video returns the path of the video file and that file exists.
C2_VideoPathReturned ==
    ( /\ pc = "done"
      /\ entry = "create_video"
      /\ audio_file_exists
      /\ all_image_paths # << >>
      /\ ffmpeg_available
      /\ NoAttemptFailed )
    => ( video_path = "out" /\ Exists(outFile) )

\* C3: whenever success is reported, by the chain or by create_video, the
\* file at the output path exists and is not empty.
C3_SuccessMeansNonEmptyFile ==
    ( result = "True" \/ video_path = "out" ) => outFile \in { "valid", "partial" }

\* C4: a failed strategy leaves nothing at the output path: the path is empty
\* when the next strategy starts, and it is empty when the chain has failed.
C4_PartialOutputDiscarded ==
    /\ pc \in { "m1", "m2", "m3" } => outFile = "none"
    /\ result = "False" => outFile = "none"

\* C5: once create_video_from_images has returned, neither the silent stream
\* of strategy 0 nor the concat manifest of strategy 1 exists any more.
C5_TemporaryFilesRemoved ==
    result # "pending" => ( tempVideo = "none" /\ ~concatFile )

AttemptedAndFailed(i) ==
    \E k \in 1..Len(outcomes) : attempts[k] = i /\ AttemptFailed(k)

\* C6: when the call has returned, the recorded errors hold exactly one entry
\* for every strategy that was attempted and failed and none for any other;
\* in particular one entry, for strategy 0, when strategy 0 failed and
\* strategy 1 succeeded, and four when every strategy failed.
C6_OneErrorPerFailedStrategy ==
    ( result # "pending" /\ attempts # << >> ) =>
        \A i \in 0..3 : CountLog(i) = IF AttemptedAndFailed(i) THEN 1 ELSE 0

\* C7: every blocking call is bounded by a timeout, so a request never stays
\* blocked: as long as it has not returned it has a step to take (a hung
\* subprocess is killed and the chain moves on).  The steps of a request are
\* finitely many, so this is what makes every request end.
C7_RequestNeverBlocked == pc # "done" => ENABLED Next

(***************************************************************************)
(* Properties of create_video                                              *)
(***************************************************************************)
Abs(x) == IF x < 0 THEN -x ELSE x

Tolerance == 10 * 1000     \* 10 ms, in microseconds

\* C8: when the narration file does not exist, or the Guarantor returns no
\* image, create_video returns None from its guard (line 325 or line 368):
\* no processor is built and no strategy is attempted.
C8_FailsBeforeRendering ==
    ( /\ pc = "done"
      /\ entry = "create_video"
      /\ ( ~audio_file_exists \/ all_image_paths = << >> ) )
    => /\ video_path = "None"
       /\ attempts = << >>
       /\ ~processor_constructed
       /\ cv_exit = IF ~audio_file_exists THEN "325" ELSE "368"

\* The Guarantor found no image and had no client to generate one.
C8_Witness ==
    /\ pc = "done"
    /\ entry = "create_video"
    /\ audio_file_exists
    /\ all_image_paths = << >>
    /\ video_path = "None"

MusicBranchFailed ==
    \/ /\ entry = "create_video_from_images"
       /\ result # "pending"
       /\ mixFailed
       /\ tempVideo = "frames"
       /\ narrMuxOk
    \/ /\ entry = "create_video"
       /\ pc = "done"
       /\ processor_constructed
       /\ ~music_file_exists
       /\ NoAttemptFailed

\* C10: a missing music file or a failed music mix never fails the request:
\* it succeeds and its output carries the narration alone.
C10_MusicFailureDegrades ==
    MusicBranchFailed =>
        /\ IF entry = "create_video" THEN video_path = "out" ELSE result = "True"
        /\ outFile = "valid"
        /\ outAudio = "narration"


\* The Guarantor on its own: a directory, a cache index and the arguments are
\* drawn, then the same call is made up to twice.
GuarInit ==
    /\ RenderIdle /\ SubtitleOff /\ ConcurrentOff /\ CompositorOff /\ SweepOff
    /\ g_pc = "on"
    /\ g_required \in RequiredCounts
    /\ g_client \in BOOLEAN
    /\ g_dir \in GuarDirChoices
    /\ g_cache \in CacheChoices
    /\ g_changed = FALSE
    /\ g_hist = << >>

GuarNext == EnsureSufficientImages \/ DeleteImage

GuarSpec == GuarInit /\ [][GuarNext]_vars

\* Two render requests, each with its own VideoGenerator and so its own
\* OpenAIImageGenerator (video_generator.py line 68), on one directory.
ConcInit ==
    /\ RenderIdle /\ SubtitleOff /\ GuarantorOff /\ CompositorOff /\ SweepOff
    /\ c_pc = [ p \in Requests |-> "new" ]
    /\ \E n1 \in 1..MaxBatch, n2 \in 1..MaxBatch, th \in Themes :
         c_prompts = [ p \in Requests |->
                         IF p = 1 THEN PromptsFor(0, n1) ELSE PromptsFor(th, n2) ]
    /\ c_k = [ p \in Requests |-> 1 ]
    /\ c_mem = [ p \in Requests |-> << >> ]
    /\ c_called = [ p \in Requests |-> {} ]
    /\ c_added = [ p \in Requests |-> {} ]
    /\ c_disk \in CacheChoices
    /\ c_dir \in { { Gen(k, 0) : k \in K } : K \in SUBSET (0..MaxGenIdx) }

ConcNext == \E p \in Requests : LoadCache(p) \/ CheckCache(p) \/ Generate(p)

ConcSpec == ConcInit /\ [][ConcNext]_vars

\* The compositor on its own: the arguments of one call are drawn, the call
\* is made.
CompInit ==
    /\ RenderIdle /\ SubtitleOff /\ GuarantorOff /\ ConcurrentOff /\ SweepOff
    /\ w_pc = "call"
    /\ \E n \in 1..MaxImages :
         /\ w_image_paths = [ i \in 1..n |-> Img(i) ]
         /\ w_durations \in [ 1..n -> SlotChoices ]
         /\ w_readable \in SUBSET { Img(i) : i \in 1..n }
    /\ w_fps = default_fps
    /\ w_crossfade \in CrossfadeChoices
    /\ video_writer = << >>

CompNext == CreateVideoWithOpencv

CompSpec == CompInit /\ [][CompNext]_vars

\* The sweep on its own: an index whose total_images is its size (lines 76,
\* 289 keep it so), a directory, the files that cannot be deleted, the
\* argument; then the call.  The file of key k is file k (line 268: the name
\* holds the hash of the prompt).
SweepInit ==
    /\ RenderIdle /\ SubtitleOff /\ GuarantorOff /\ ConcurrentOff /\ CompositorOff
    /\ k_pc = "call"
    /\ \E D \in SUBSET SweepKeys :
         k_index \in { [ k \in D |-> CacheEntry(k, a[k]) ] : a \in [ D -> AgeChoices ] }
    /\ k_total = Cardinality(DOMAIN k_index)
    /\ k_files \in SUBSET SweepKeys
    /\ k_locked \in SUBSET k_files
    /\ k_max_age \in MaxAgeChoices
    /\ k_before = << >>
    /\ k_cache_file = [ index |-> k_index, total |-> k_total ]

SweepNext == CleanupCache

SweepSpec == SweepInit /\ [][SweepNext]_vars

(***************************************************************************)
(* Properties of the Subtitle Timer                                        *)
(***************************************************************************)
TimingReturned == sub_pc = "done" /\ sub_segments # << >>

\* C11: for a non-empty caption list and D > 0 the timed segments are
\* contiguous and non-overlapping (each starts where its predecessor ends and
\* does not end before it starts), the first starts at 0 and the last ends
\* at or before D.
C11_ContiguousWithinDuration ==
    ( TimingReturned /\ total_duration > 0 ) =>
        /\ timed_segments # << >>
        /\ timed_segments[1].start = 0
        /\ \A i \in 1..Len(timed_segments) :
              /\ timed_segments[i].start <= timed_segments[i].end
              /\ i > 1 => timed_segments[i].start = timed_segments[i - 1].end
        /\ timed_segments[Len(timed_segments)].end <= total_duration

\* Several segments were placed and the last one had to be clamped to D.
C11_Witness ==
    /\ TimingReturned
    /\ total_duration > 0
    /\ Len(timed_segments) >= 2
    /\ LET l == timed_segments[Len(timed_segments)]
       IN  /\ l.end = total_duration
           /\ l.start + SegmentDuration(l.text, sub_segments, total_duration) > total_duration

\* C12: every timed segment lasts at least 1 second unless it is the only
\* segment of the output.
C12_MinimumOneSecond ==
    ( sub_pc = "done" /\ Len(timed_segments) > 1 ) =>
        \A i \in 1..Len(timed_segments) :
            timed_segments[i].end - timed_segments[i].start >= Second

\* C13: a text of 0 characters gives an empty segment list and no failure
\* value.
C13_EmptyTextIsNotAnError ==
    ( sub_pc = "done" /\ sub_call = "generate_subtitle_file" /\ sub_text = << >> ) =>
        ( timed_segments = << >> /\ subtitle_ret # "None" )

(***************************************************************************)
(* Properties of the Image Availability Guarantor                          *)
(***************************************************************************)
Finished == 1..Len(g_hist)

\* The images obtained for the prompts of a batch, in prompt order.
Obtained(steps) ==
    LET got == SelectSeq(steps, LAMBDA st : st.how \in { "ok", "hit" })
    IN  [ i \in 1..Len(got) |-> got[i].path ]

\* The batch generate_images was asked for by a call (line 349), 0 without one.
BatchSize(h) ==
    IF g_client /\ Len(get_existing_images(h.dir)) < g_required
    THEN g_required - Len(get_existing_images(h.dir)) ELSE 0

\* C14: when the directory holds at least required_count image files, the call
\* returns exactly required_count paths, each of an existing image file, and
\* makes no generation call.
C14_EnoughExistingImages ==
    \A i \in Finished :
        Cardinality(g_hist[i].dir) >= g_required =>
            /\ g_hist[i].n_paths = g_required
            /\ DOMAIN g_hist[i].paths \subseteq g_hist[i].dir
            /\ g_hist[i].calls = 0
            /\ g_hist[i].dir_after = g_hist[i].dir

\* More files than asked for, and a collaborator that could have been called.
C14_Witness ==
    /\ Len(g_hist) >= 1
    /\ g_client
    /\ Cardinality(g_hist[1].dir) > g_required
    /\ g_hist[1].n_paths = g_required

\* C15: with fewer existing image files than required_count and the
\* collaborator available, exactly deficit = required_count - count prompts
\* are derived and each is processed once, with at most one generation call
\* per prompt and none on a cache hit; the returned list holds every existing
\* image and every image obtained for a prompt, and at most required_count
\* paths.
C15_DeficitGenerated ==
    \A i \in Finished :
        LET h == g_hist[i]
        IN  ( g_client /\ Cardinality(h.dir) < g_required ) =>
                /\ Len(h.steps) = g_required - Cardinality(h.dir)
                /\ \A j \in 1..Len(h.steps) : h.steps[j].prompt = j - 1
                /\ h.calls = Cardinality({ j \in 1..Len(h.steps) : h.steps[j].how # "hit" })
                /\ h.dir \subseteq DOMAIN h.paths
                /\ Range(Obtained(h.steps)) \subseteq DOMAIN h.paths
                /\ h.n_paths <= g_required

\* C16: without the collaborator and with fewer existing image files than
\* required_count, the call returns the existing images (possibly none), makes
\* no generation call and leaves the directory and the cache index as they
\* were.
C16_DegradesWithoutCollaborator ==
    \A i \in Finished :
        LET h == g_hist[i]
        IN  ( ~g_client /\ Cardinality(h.dir) < g_required ) =>
                /\ DOMAIN h.paths = h.dir
                /\ h.calls = 0
                /\ h.dir_after = h.dir
                /\ h.cache_after = h.cache

\* C17: a prompt whose generation fails is skipped and the batch goes on: every
\* prompt of the batch is processed, in order, and the batch result is the
\* images of the prompts that succeeded or hit the cache, in prompt order.
C17_FailureSkipped ==
    \A i \in Finished :
        LET h == g_hist[i]
        IN  /\ Len(h.steps) = BatchSize(h)
            /\ \A j \in 1..Len(h.steps) : h.steps[j].prompt = j - 1
            /\ h.new_images = Obtained(h.steps)

\* A failed prompt is followed by one that yields an image.
C17_Witness ==
    \E i \in Finished : \E j \in 1..Len(g_hist[i].steps) :
        /\ g_hist[i].steps[j].how \in { "fail", "invalid" }
        /\ \E l \in (j + 1)..Len(g_hist[i].steps) : g_hist[i].steps[l].how = "ok"

\* C18: a prompt whose key is recorded in the cache index, with the recorded
\* file still in the directory, is a cache hit: the recorded file is returned
\* for it and no generation call is made for it.
C18_RecordedKeyHits ==
    \A i \in Finished :
        LET h == g_hist[i]
        IN  \A j \in 1..Len(h.steps) :
                LET key == cache_key(h.steps[j].prompt)
                IN  ( key \in DOMAIN h.cache /\ h.cache[key] \in h.dir ) =>
                        /\ h.steps[j].how = "hit"
                        /\ h.steps[j].path = h.cache[key]
                        /\ h.cache_after[key] = h.cache[key]

\* The first call generated and recorded an image; the second call asks for
\* the same prompt and gets that image from the cache.
C18_Witness ==
    /\ Len(g_hist) = 2
    /\ \E j \in 1..Len(g_hist[1].steps), l \in 1..Len(g_hist[2].steps) :
        /\ g_hist[1].steps[j].how = "ok"
        /\ g_hist[2].steps[l].prompt = g_hist[1].steps[j].prompt
        /\ g_hist[2].steps[l].how = "hit"
        /\ g_hist[2].steps[l].path = g_hist[1].steps[j].path

\* C19: a second call with the same theme and required_count, the cache as the
\* first call left it and nothing else changed, makes no generation call and
\* returns as many distinct files as the first.  Read in the claim's favour:
\* the first call obtained every image it asked for.
C19_SecondCallSame ==
    ( /\ Len(g_hist) = 2
      /\ ~g_hist[2].changed
      /\ \A j \in 1..Len(g_hist[1].steps) : g_hist[1].steps[j].how \in { "ok", "hit" } ) =>
        /\ g_hist[2].calls = 0
        /\ Cardinality(DOMAIN g_hist[2].paths) = Cardinality(DOMAIN g_hist[1].paths)

(***************************************************************************)
(* Properties of concurrent requests                                       *)
(***************************************************************************)
BothDone == \A p \in Requests : c_pc[p] = "done"

\* C20: when two concurrent requests have finished, the persisted index holds
\* every entry either of them added (no lost update), and no key was generated
\* and recorded by both of them.  (The index is a mapping, so it holds at most
\* one entry per key by construction.)
C20_WritesSerialized ==
    BothDone =>
        /\ \A p \in Requests : c_added[p] \subseteq DOMAIN c_disk
        /\ c_added[1] \cap c_added[2] = {}

(***************************************************************************)
(* Properties of the frame compositor                                      *)
(***************************************************************************)
Slots == 1..Len(w_image_paths)

\* Frames written for slot i, transition-in and steady together.
FramesOf(i) ==
    SumSeq([ j \in 1..Len(SelectSeq(video_writer, LAMBDA r : r.slot = i)) |->
               SelectSeq(video_writer, LAMBDA r : r.slot = i)[j].frames ])

\* C21: for every readable slot the frames written for it, crossfade and
\* steady together, number round(slot_duration * fps).  Read in the claim's
\* favour: the count may also be the truncated int(slot_duration * fps).
C21_SlotFrameBudget ==
    w_pc = "done" =>
        \A i \in Slots :
            w_image_paths[i] \in w_readable =>
                FramesOf(i) \in { RoundDiv(w_durations[i] * w_fps, Second),
                                  FrameCount(w_durations[i], w_fps) }

\* C23: no frame shows an image that cannot be read, neither as the image of
\* a slot nor as the image a crossfade starts from, and the readable images
\* get their steady frames in the order given.
C23_UnreadableImageSkipped ==
    w_pc = "done" =>
        /\ \A j \in 1..Len(video_writer) :
              /\ video_writer[j].image \in w_readable
              /\ video_writer[j].prev \in w_readable
        /\ LET steady == SelectSeq(video_writer, LAMBDA r : r.kind = "steady")
           IN  [ j \in 1..Len(steady) |-> steady[j].image ]
                 = SelectSeq(w_image_paths, LAMBDA f : f \in w_readable)

\* An unreadable image between two readable ones, with crossfade on.
C23_Witness ==
    /\ w_pc = "done"
    /\ w_crossfade > 0
    /\ \E i \in Slots :
         /\ i > 1 /\ i < Len(w_image_paths)
         /\ w_image_paths[i] \notin w_readable
         /\ w_image_paths[i - 1] \in w_readable
         /\ w_image_paths[i + 1] \in w_readable
         /\ FramesOf(i + 1) > 0

\* C22: when no image of the sequence can be read, strategy 0 is reported as
\* failed.
C22_AllUnreadableFails ==
    ( /\ Len(outcomes) >= 1
      /\ attempts[1] = 0
      /\ Range(image_paths) \cap readable = {} ) =>
        outcomes[1] # "True"

\* C24: the captions of the output are the leading captions of the input, in
\* input order and placed from time 0, and for a positive total_duration no
\* output segment starts at or after total_duration.
C24_PrefixBeforeEnd ==
    sub_pc = "done" =>
        /\ Len(timed_segments) <= Len(sub_segments)
        /\ \A i \in 1..Len(timed_segments) : timed_segments[i].text = sub_segments[i]
        /\ ( timed_segments # << >> /\ total_duration > 0 ) =>
              /\ timed_segments[1].start = 0
              /\ \A i \in 1..Len(timed_segments) :
                    timed_segments[i].start < total_duration

\* The accumulated time reached a positive total_duration before every
\* caption was placed: the remaining captions were dropped.
C24_Witness ==
    /\ sub_pc = "done"
    /\ total_duration > 0
    /\ timed_segments # << >>
    /\ Len(timed_segments) < Len(sub_segments)
    /\ timed_segments[Len(timed_segments)].end = total_duration

\* C25: a cache entry whose file is not on disk is a miss (the collaborator is
\* asked again for that key) and is purged: after the call the index holds no
\* entry for that key that points to a missing file, whether the regeneration
\* succeeded or not.
C25_StaleEntryPurged ==
    \A c \in 1..Len(g_hist) :
        LET h == g_hist[c]
        IN  \A j \in 1..Len(h.steps) :
                LET key == cache_key(h.steps[j].prompt)
                IN  ( key \in DOMAIN h.cache /\ h.cache[key] \notin h.dir_after ) =>
                        /\ h.steps[j].how # "hit"
                        /\ \/ key \notin DOMAIN h.cache_after
                           \/ h.cache_after[key] \in h.dir_after

Swept == k_pc = "done"

KeptAsItWas(k) ==
    /\ k \in DOMAIN k_index
    /\ k_index[k] = k_before.index[k]
    /\ k_index[k].file \in k_files <=> k_before.index[k].file \in k_before.files

EntryGone(k) ==
    /\ k \notin DOMAIN k_index
    /\ k_before.index[k].file \notin k_files

\* The entry was generated before the cutoff now - max_age_days.
GeneratedBeforeCutoff(k) == k_before.index[k].age > k_max_age

\* The file of the entry was there and could not be deleted.
DeleteRaised(k) ==
    /\ k_before.index[k].file \in k_before.files
    /\ k_before.index[k].file \in k_locked

TotalIsSize == k_total = Cardinality(DOMAIN k_index)

\* C26 as stated: the sweep removes from the index every entry generated
\* before the cutoff and deletes its file, leaves every entry generated at or
\* after the cutoff and its file unchanged, and afterwards total_images is the
\* number of entries of the index.
C26_AsStated ==
    Swept =>
        /\ \A k \in DOMAIN k_before.index :
              IF GeneratedBeforeCutoff(k) THEN EntryGone(k) ELSE KeptAsItWas(k)
        /\ DOMAIN k_index \subseteq DOMAIN k_before.index
        /\ TotalIsSize

\* C26 amended: the sweep removes from the index every entry generated before
\* the cutoff and deletes its file, unless deleting the file raises: that
\* entry and its file are kept.  Every entry generated at or after the cutoff
\* and its file are unchanged, no other file is touched, and afterwards
\* total_images is the number of entries of the index.
C26_EvictionSweep ==
    Swept =>
        /\ \A k \in DOMAIN k_before.index :
              IF GeneratedBeforeCutoff(k) /\ ~DeleteRaised(k)
              THEN EntryGone(k) ELSE KeptAsItWas(k)
        /\ DOMAIN k_index \subseteq DOMAIN k_before.index
        /\ \A f \in k_before.files \ k_files :
              \E k \in DOMAIN k_before.index \ DOMAIN k_index : k_before.index[k].file = f
        /\ TotalIsSize

\* One sweep that removed an old entry with its file, kept an entry generated
\* exactly at the cutoff, and kept an old entry whose file could not be
\* deleted.
C26_Witness ==
    /\ Swept
    /\ \E k \in DOMAIN k_before.index :
          /\ k_before.index[k].age > k_max_age
          /\ k_before.index[k].file \in k_before.files
          /\ EntryGone(k)
    /\ \E k \in DOMAIN k_index :
          k_index[k].age = k_max_age /\ k_index[k].file \in k_files
    /\ \E k \in DOMAIN k_index :
          k_index[k].age > k_max_age /\ k_index[k].file \in k_locked

\* Strategy 1 has built its manifest.
ManifestBuilt == concat_manifest # << >>

\* Directives 2i-1 and 2i are the `file` and the `duration` of image i.
PairPerImage ==
    \A i \in 1..Len(image_paths) :
        /\ 2 * i <= Len(concat_manifest)
        /\ concat_manifest[2 * i - 1] = [ kind |-> "file", arg |-> image_paths[i] ]
        /\ concat_manifest[2 * i] = [ kind |-> "duration", arg |-> durations[i] ]

\* C27 as stated: the manifest lists the images in the order given, with
\* exactly one `file` directive followed by one `duration` directive per
\* image, the duration being the image's slot duration.
C27_AsStated ==
    ManifestBuilt =>
        /\ PairPerImage
        /\ Len(concat_manifest) = 2 * Len(image_paths)

\* C27 amended: the manifest lists the images in the order given, one `file`
\* directive followed by one `duration` directive per image, the duration
\* being the image's slot duration, and ends with one more `file` directive
\* that names the last image again, without a duration.
C27_ManifestPairsAndClosingFile ==
    ManifestBuilt =>
        /\ PairPerImage
        /\ Len(concat_manifest) = 2 * Len(image_paths) + 1
        /\ concat_manifest[Len(concat_manifest)] =
              [ kind |-> "file", arg |-> image_paths[Len(image_paths)] ]

\* The manifest of a request with several images.
C27_Witness ==
    /\ ManifestBuilt
    /\ Len(image_paths) >= 2
    /\ Len(attempts) >= 2
    /\ attempts[2] = 1

\* Strategy 2 has built its encoder run.
SlideshowBuilt == slideshow # << >>

\* C28: strategy 2 renders the first images of the sequence, at most 5 of
\* them, for equal durations that sum to the total duration: every one of
\* these images is in the encoded stream, and the stream is cut at the sum of
\* the slot durations.
C28_FirstImagesRendered ==
    SlideshowBuilt =>
        /\ slideshow.encoded = SubSeq(image_paths, 1, Min(5, Len(image_paths)))
        /\ slideshow.t = SumSeq(durations)

\* C29: the list ensure_sufficient_images returns never holds the same path
\* twice, whichever branch returns it, and the count of existing images
\* compared with required_count is the number of distinct image files of the
\* directory.
C29_NoPathTwice ==
    \A i \in Finished :
        LET h == g_hist[i]
        IN  /\ \A f \in DOMAIN h.paths : h.paths[f] = 1
            /\ Len(get_existing_images(h.dir)) = Cardinality(h.dir)

\* The request succeeded through strategy 1, 2 or 3.
SucceededByFallback ==
    /\ result = "True"
    /\ attempts # << >>
    /\ attempts[Len(attempts)] \in { 1, 2, 3 }

\* C30: background music is mixed only by strategy 0: a request with a music
\* file that succeeds through strategy 1, 2 or 3 is reported as a success and
\* its output has the narration as its only audio (no audio when there is no
\* narration).
C30_MusicOnlyByStrategy0 ==
    ( SucceededByFallback /\ background_music_path # "None" ) =>
        /\ Exists(outFile)
        /\ outAudio \notin { "mixed", "music" }
        /\ audio_path # "None" => outAudio = "narration"

\* Narration and music were supplied, strategy 0 failed and a later strategy
\* produced the output.
C30_Witness ==
    /\ SucceededByFallback
    /\ background_music_path # "None"
    /\ audio_path # "None"
    /\ outAudio = "narration"

====
